---- MODULE Spec2Model ----
(***************************************************************************)
(* The signaling server of src/index.js as a state machine.                *)
(*                                                                         *)
(* State: the socket.io connections (their ids, which of them are open,    *)
(* the userId field the join handler stores on each socket), the two       *)
(* in-memory Maps activeUsers and calls, and the uuid source.  A JS Map    *)
(* is an insertion-ordered list of key/value pairs, so both Maps are       *)
(* sequences of records, and set/get/delete are modelled on sequences.     *)
(* Every socket.on handler is one action: a handler of index.js runs to    *)
(* completion synchronously.  `last` is the inbound event just handled,    *)
(* `out` the events the handler emitted in emission order, `pre` the two   *)
(* Maps as the handler found them.                                         *)
(*                                                                         *)
(* The username, lastSeen and isOnline fields of a presence entry and the  *)
(* callType and startTime of a call record are written but never read by   *)
(* any handler (log lines apart); they are left out.  Of call.from and     *)
(* call.to the handlers read the id alone, so a record holds the two ids.  *)
(*                                                                         *)
(* The users Map is written by POST /api/login; join and disconnect touch  *)
(* it only for an id it holds.  SpecLogin runs the endpoint alone; in the  *)
(* other specifications nobody has logged in and the Map stays empty.      *)
(*                                                                         *)
(* Two more programs of the repository are modelled beside it, each with   *)
(* its own variables and its own specification over the same Init: the     *)
(* browser client (Dashboard.tsx with the WebRTCService of webrtc.ts) in   *)
(* SpecDashboard, and the second server appended to vite.config.ts, whose  *)
(* users Map is keyed by socket.id, in SpecVite.  The actions of one       *)
(* program leave the variables of the others unchanged.                    *)
(***************************************************************************)
EXTENDS Integers, Sequences, FiniteSets, TLC

\* ------------------------------------------------------------------ bounds
MaxConns == 3   \* connections ever opened
NumUsers == 2   \* user ids a client may present
MaxCalls == 2   \* call records ever created
MaxTotal == 4   \* connections opened plus call records created

Conns == 1..MaxConns
Users == 1..NumUsers
CallIds == 1..MaxCalls
None == 0

MaxPeers == 2        \* other users the client sees online
MaxClientCalls == 2  \* calls the server ever holds for the client
MaxPcs == 2          \* RTCPeerConnection objects the client ever creates
MaxCandidates == 1   \* ICE candidates relayed to the client
Peers == 1..MaxPeers

CallTypes == {"audio", "video"}
Payloads == {"sdp"}

VARIABLES
  nextConn,     \* the id socket.io gives the next connection
  connected,    \* the sockets that are open
  sockUserId,   \* socket.userId of every socket (None: never joined)
  activeUsers,  \* Map userId -> {id, socketId}
  calls,        \* Map callId -> {id, from, to, status}
  nextCallId,   \* the next value of uuidv4()
  last,         \* the inbound event handled by the last step
  out,          \* the events that handler emitted, in order
  pre,          \* activeUsers and calls before that handler ran
  http,         \* the users Map, with the last login request and its response
  dashboard,     \* the client: currentCall and incomingCall of the Dashboard
  webrtcService, \* the client: the fields of its WebRTCService, with the
                 \* RTCPeerConnection objects it has created (pcs)
  pending,       \* the client: the continuations of its async handlers
  signaling,     \* the client's calls as the server holds them
  ice,           \* the client: candidates received, and those added
  did,           \* the client: the name of its last step
  vite           \* the server of vite.config.ts: its sockets, its two Maps,
                 \* the event it handled last and what it emitted

serverVars == <<nextConn, connected, sockUserId, activeUsers, calls,
                nextCallId, last, out, pre, http>>
clientVars == <<dashboard, webrtcService, pending, signaling, ice, did>>
vars == <<serverVars, clientVars, vite>>

\* ------------------------------------------------------------- JS Map
MapHas(m, k) == \E i \in 1..Len(m) : m[i].id = k

\* What Map.get gives for a key the Map does not hold.
Undefined == [id |-> None]

MapGet(m, k) ==
  IF MapHas(m, k) THEN m[CHOOSE i \in 1..Len(m) : m[i].id = k] ELSE Undefined

MapSet(m, k, v) ==
  IF MapHas(m, k)
  THEN [i \in 1..Len(m) |-> IF m[i].id = k THEN v ELSE m[i]]
  ELSE Append(m, v)

MapDelete(m, k) == SelectSeq(m, LAMBDA e : e.id # k)

MapKeys(m) == {m[i].id : i \in 1..Len(m)}

\* ------------------------------------------------------------- events
\* An outbound event: `to` is the set of socket ids it is addressed to
\* (socket.emit: the handling socket; io.to(id).emit: that id's room;
\* io.emit: every open socket).
Msg(ev, to, callId, from, callType, payload, status, list) ==
  [ev |-> ev, to |-> to, callId |-> callId, from |-> from,
   callType |-> callType, payload |-> payload, status |-> status,
   list |-> list]

\* An inbound event.
Evt(ev, conn, id, to, callId, callType, payload) ==
  [ev |-> ev, conn |-> conn, id |-> id, to |-> to, callId |-> callId,
   callType |-> callType, payload |-> payload]

\* What `out` holds when the handler was left by an exception instead of
\* returning: a property read on undefined throws a TypeError, which no
\* handler catches.
Thrown == << Msg("TypeError", {}, None, None, "", "", "", <<>>) >>

\* Connections opened and call records created so far.
Used == (nextConn - 1) + (nextCallId - 1)

Snapshot == [activeUsers |-> activeUsers, calls |-> calls]

\* broadcastUserList as it would be were the list taken before the handler
\* changed activeUsers.
broadcastStaleList(au, open) ==
  Msg("users_updated", open, None, None, "", "", "", activeUsers)

broadcastUserList(au, open) ==
  Msg("users_updated", open, None, None, "", "", "", au)

\* ------------------------------------------------------------- state
Init ==
  /\ nextConn = 1
  /\ connected = {}
  /\ sockUserId = [c \in Conns |-> None]
  /\ activeUsers = <<>>
  /\ calls = <<>>
  /\ nextCallId = 1
  /\ last = Evt("init", None, None, None, None, "", "")
  /\ out = <<>>
  /\ pre = [activeUsers |-> <<>>, calls |-> <<>>]
  /\ http = [users |-> <<>>, req |-> [username |-> "", password |-> ""],
             res |-> [status |-> None]]
  /\ dashboard = [currentCall |-> [status |-> "null", id |-> None,
                                   otherUser |-> None],
                  incomingCall |-> [callId |-> None, from |-> None]]
  /\ webrtcService = [peerConnection |-> None, localStream |-> FALSE,
                      onRemoteStream |-> FALSE, onIceCandidate |-> None,
                      pcs |-> <<>>]
  /\ pending = {}
  /\ signaling = [calls |-> {}, requested |-> 0, nextCallId |-> 1]
  /\ ice = [received |-> {}, added |-> {}]
  /\ did = "init"
  /\ vite = [nextConn |-> 1, connected |-> {}, users |-> <<>>,
             activeCalls |-> <<>>, nextCallId |-> 1,
             last |-> [ev |-> "init", conn |-> None, id |-> None,
                       callId |-> None],
             out |-> <<>>,
             pre |-> [users |-> <<>>, activeCalls |-> <<>>]]

\* io.on('connection'): a new socket with a fresh id.
Connection ==
  /\ nextConn <= MaxConns
  /\ Used < MaxTotal
  /\ connected' = connected \cup {nextConn}
  /\ nextConn' = nextConn + 1
  /\ last' = Evt("connection", nextConn, None, None, None, "", "")
  /\ out' = <<>>
  /\ pre' = Snapshot
  /\ UNCHANGED <<sockUserId, activeUsers, calls, nextCallId,
                 http, clientVars, vite>>

\* Register as it would be were the reply built before the Map is written.
RegisterSkipped(au, u, c) == au

\* Register as it would be were activeUsers a list that join pushes onto.
RegisterPush(au, u, c) == Append(au, [id |-> u, socketId |-> c])

\* activeUsers.set(userData.id, user) of the join handler.
Register(au, u, c) == MapSet(au, u, [id |-> u, socketId |-> c])

\* JoinOut as it would be were the reply sent before the broadcast.
JoinOutReplyFirst(c, au, open) ==
  << Msg("join_success", {c}, None, None, "", "", "", au),
     broadcastUserList(au, open) >>

\* What join emits once activeUsers is written: broadcastUserList(), then
\* socket.emit('join_success', ...).
JoinOut(c, au, open) ==
  << broadcastUserList(au, open),
     Msg("join_success", {c}, None, None, "", "", "", au) >>

\* socket.on('join')
Join(c, u) ==
  /\ c \in connected
  /\ activeUsers' = Register(activeUsers, u, c)
  /\ sockUserId' = [sockUserId EXCEPT ![c] = u]
  /\ out' = JoinOut(c, activeUsers', connected)
  /\ last' = Evt("join", c, u, None, None, "", "")
  /\ pre' = Snapshot
  /\ UNCHANGED <<nextConn, connected, calls, nextCallId,
                 http, clientVars, vite>>

\* calls.set(callId, {...}) of the call_user handler: the record of a new call.
CreateCall(cs, callId, from, targetUser, callType) ==
  MapSet(cs, callId, [id |-> callId, from |-> from, to |-> targetUser.id,
                      status |-> "ringing"])

\* CallUserOut as it would be were the ringing status sent without the
\* callId.
CallUserOutNoId(c, callId, from, targetUser, callType, offer) ==
  << Msg("incoming_call", {targetUser.socketId}, callId, from, callType,
         offer, "", <<>>),
     Msg("call_status", {c}, None, None, "", "", "ringing", <<>>) >>

\* What call_user emits when the target is online.
CallUserOut(c, callId, from, targetUser, callType, offer) ==
  << Msg("incoming_call", {targetUser.socketId}, callId, from, callType,
         offer, "", <<>>),
     Msg("call_status", {c}, callId, None, "", "", "ringing", <<>>) >>

\* CallUserOffline as it would be were the offline branch silent.
CallUserOfflineSilent(c) == <<>>

\* What call_user emits when the target is not in activeUsers.
CallUserOffline(c) ==
  << Msg("call_status", {c}, None, None, "", "", "user_offline", <<>>) >>

\* socket.on('call_user'): from is the id of the identity the client
\* supplies in the payload, to the target user id.  from = None is a
\* payload without `from`: the log line reads from.username before the
\* handler has written or emitted anything.
CallUser(c, from, to, callType, offer) ==
  /\ c \in connected
  /\ LET targetUser == MapGet(activeUsers, to) IN
       IF from = None
       THEN /\ out' = Thrown
            /\ UNCHANGED <<calls, nextCallId>>
       ELSE IF targetUser # Undefined
       THEN /\ nextCallId <= MaxCalls
            /\ Used < MaxTotal
            /\ calls' = CreateCall(calls, nextCallId, from, targetUser, callType)
            /\ nextCallId' = nextCallId + 1
            /\ out' = CallUserOut(c, nextCallId, from, targetUser, callType, offer)
       ELSE /\ out' = CallUserOffline(c)
            /\ UNCHANGED <<calls, nextCallId>>
  /\ last' = Evt("call_user", c, from, to, None, callType, offer)
  /\ pre' = Snapshot
  /\ UNCHANGED <<nextConn, connected, sockUserId, activeUsers,
                 http, clientVars, vite>>

\* UnknownCall as it would be were a missing record reported to the sender.
UnknownCallReported(c) ==
  << Msg("call_status", {c}, None, None, "", "", "call_not_found", <<>>) >>

\* What accept_call, reject_call and end_call emit when calls.get(callId)
\* found nothing: their `if (call)` has no else.
UnknownCall(c) == <<>>

\* call.status = 'connected' of the accept_call handler.
AcceptStatus(call) == [call EXCEPT !.status = "connected"]

\* The guard of the accept_call handler: `if (call)`.
AcceptGuard(call) == call # Undefined

\* AcceptOut as it would be were the answer sent to the socket of call.to.
AcceptOutToCallee(call, au, answer) ==
  LET calleeUser == MapGet(au, call.to) IN
    IF calleeUser # Undefined
    THEN << Msg("call_accepted", {calleeUser.socketId}, call.id, None, "",
                answer, "", <<>>) >>
    ELSE <<>>

\* What accept_call emits for a call it found.
AcceptOut(call, au, answer) ==
  LET callerUser == MapGet(au, call.from) IN
    IF callerUser # Undefined
    THEN << Msg("call_accepted", {callerUser.socketId}, call.id, None, "",
                answer, "", <<>>) >>
    ELSE <<>>

\* socket.on('accept_call')
AcceptCall(c, callId, answer) ==
  /\ c \in connected
  /\ LET call == MapGet(calls, callId) IN
       IF AcceptGuard(call)
       THEN /\ calls' = MapSet(calls, callId, AcceptStatus(call))
            /\ out' = AcceptOut(call, activeUsers, answer)
       ELSE /\ out' = UnknownCall(c)
            /\ UNCHANGED calls
  /\ last' = Evt("accept_call", c, None, None, callId, "", answer)
  /\ pre' = Snapshot
  /\ UNCHANGED <<nextConn, connected, sockUserId, activeUsers, nextCallId,
               http, clientVars, vite>>

\* RemoveCall as it would be were every record between the same two users
\* deleted with the one named.
RemoveCallsOfPair(cs, callId) ==
  LET call == MapGet(cs, callId) IN
    SelectSeq(cs, LAMBDA e : ~ (e.from = call.from /\ e.to = call.to))

\* RemoveCall as it would be were the delete forgotten.
RemoveCallForgotten(cs, callId) == cs

\* calls.delete(callId) of the reject_call and end_call handlers.
RemoveCall(cs, callId) == MapDelete(cs, callId)

\* The guard of the reject_call handler: `if (call)`.
RejectGuard(call) == call # Undefined

\* RejectOut as it would be were call_rejected sent to every registered
\* socket.
RejectOutToAll(call, au) ==
  << Msg("call_rejected", {au[i].socketId : i \in 1..Len(au)}, call.id, None,
         "", "", "", <<>>) >>

\* What reject_call emits for a call it found.
RejectOut(call, au) ==
  LET callerUser == MapGet(au, call.from) IN
    IF callerUser # Undefined
    THEN << Msg("call_rejected", {callerUser.socketId}, call.id, None, "",
                "", "", <<>>) >>
    ELSE <<>>

\* socket.on('reject_call')
RejectCall(c, callId) ==
  /\ c \in connected
  /\ LET call == MapGet(calls, callId) IN
       IF RejectGuard(call)
       THEN /\ out' = RejectOut(call, activeUsers)
            /\ calls' = RemoveCall(calls, callId)
       ELSE /\ out' = UnknownCall(c)
            /\ UNCHANGED calls
  /\ last' = Evt("reject_call", c, None, None, callId, "", "")
  /\ pre' = Snapshot
  /\ UNCHANGED <<nextConn, connected, sockUserId, activeUsers, nextCallId,
               http, clientVars, vite>>

\* OtherUserId as it would be were the callee always the one notified.
OtherUserIdCallee(call, userId) == call.to

\* OtherUserId as it would be were the caller always the one notified.
OtherUserIdCaller(call, userId) == call.from

\* const otherUserId = call.from.id === socket.userId ? call.to.id : call.from.id
OtherUserId(call, userId) ==
  IF call.from = userId THEN call.to ELSE call.from

\* The call_ended notification of end_call and of disconnect.
EndedOut(call, userId, au) ==
  LET otherUser == MapGet(au, OtherUserId(call, userId)) IN
    IF otherUser # Undefined
    THEN << Msg("call_ended", {otherUser.socketId}, call.id, None, "", "",
                "", <<>>) >>
    ELSE <<>>

\* socket.on('end_call')
EndCall(c, callId) ==
  /\ c \in connected
  /\ LET call == MapGet(calls, callId) IN
       IF call # Undefined
       THEN /\ out' = EndedOut(call, sockUserId[c], activeUsers)
            /\ calls' = RemoveCall(calls, callId)
       ELSE /\ out' = UnknownCall(c)
            /\ UNCHANGED calls
  /\ last' = Evt("end_call", c, None, None, callId, "", "")
  /\ pre' = Snapshot
  /\ UNCHANGED <<nextConn, connected, sockUserId, activeUsers, nextCallId,
               http, clientVars, vite>>

\* Relay as it would be were the event sent on even when the target has no
\* presence entry, to the socket of that name.
RelayUnchecked(ev, c, to, payload) ==
  << Msg(ev, {MapGet(activeUsers, to).id}, None, sockUserId[c], "", payload,
         "", <<>>) >>

\* socket.on('ice_candidate') and socket.on('typing'): relays.
Relay(ev, c, to, payload) ==
  LET targetUser == MapGet(activeUsers, to) IN
    IF targetUser # Undefined
    THEN << Msg(ev, {targetUser.socketId}, None, sockUserId[c], "", payload,
                "", <<>>) >>
    ELSE <<>>

IceCandidate(c, to, candidate) ==
  /\ c \in connected
  /\ out' = Relay("ice_candidate", c, to, candidate)
  /\ last' = Evt("ice_candidate", c, None, to, None, "", candidate)
  /\ pre' = Snapshot
  /\ UNCHANGED <<nextConn, connected, sockUserId, activeUsers, calls, nextCallId,
               http, clientVars, vite>>

Typing(c, to) ==
  /\ c \in connected
  /\ out' = Relay("user_typing", c, to, "")
  /\ last' = Evt("typing", c, None, to, None, "", "")
  /\ pre' = Snapshot
  /\ UNCHANGED <<nextConn, connected, sockUserId, activeUsers, calls, nextCallId,
               http, clientVars, vite>>

\* socket.on('ping')
Ping(c) ==
  /\ c \in connected
  /\ out' = << Msg("pong", {c}, None, None, "", "", "", <<>>) >>
  /\ last' = Evt("ping", c, None, None, None, "", "")
  /\ pre' = Snapshot
  /\ UNCHANGED <<nextConn, connected, sockUserId, activeUsers, calls, nextCallId,
               http, clientVars, vite>>

\* DisconnectGuard as it would be were the handler to run for every socket.
DisconnectGuardAlways(c) == TRUE

\* The guard of the disconnect handler: `if (socket.userId)`.
DisconnectGuard(c) == sockUserId[c] # None

\* Unregister as it would be were the entry still there when the handler
\* notifies and broadcasts.
UnregisterLate(au, c) == au

\* activeUsers.delete(socket.userId) of the disconnect handler.
Unregister(au, c) == MapDelete(au, sockUserId[c])

\* `call.from.id === socket.userId || call.to.id === socket.userId`
Involves(call, userId) == call.from = userId \/ call.to = userId

\* The loop of the disconnect handler over calls.entries(): the
\* call_ended events it emits, in the order of the Map.
RECURSIVE DisconnectOut(_, _, _)
DisconnectOut(cs, userId, au) ==
  IF cs = <<>> THEN <<>>
  ELSE (IF Involves(Head(cs), userId)
        THEN EndedOut(Head(cs), userId, au) ELSE <<>>)
       \o DisconnectOut(Tail(cs), userId, au)

\* DisconnectCalls as it would be were the loop to notify without deleting.
DisconnectCallsKept(cs, userId) == cs

\* DisconnectCalls as it would be were every record dropped whenever a
\* joined connection goes.
DisconnectCallsAll(cs, userId) == <<>>

\* DisconnectCalls as it would be were the loop to test call.from.id alone.
DisconnectCallsCallerOnly(cs, userId) ==
  SelectSeq(cs, LAMBDA call : call.from # userId)

\* The calls the loop leaves in the Map.
DisconnectCalls(cs, userId) ==
  SelectSeq(cs, LAMBDA call : ~Involves(call, userId))

\* socket.on('disconnect'): socket.io has taken the socket out of the
\* namespace and of its rooms before the handler runs.
Disconnect(c) ==
  /\ c \in connected
  /\ connected' = connected \ {c}
  /\ IF DisconnectGuard(c)
     THEN /\ activeUsers' = Unregister(activeUsers, c)
          /\ calls' = DisconnectCalls(calls, sockUserId[c])
          /\ out' = DisconnectOut(calls, sockUserId[c], activeUsers')
                      \o << broadcastUserList(activeUsers', connected') >>
     ELSE /\ out' = <<>>
          /\ UNCHANGED <<activeUsers, calls>>
  /\ last' = Evt("disconnect", c, None, None, None, "", "")
  /\ pre' = Snapshot
  /\ UNCHANGED <<nextConn, sockUserId, nextCallId, http, clientVars, vite>>

Next ==
  \/ Connection
  \/ \E c \in Conns, u \in Users : Join(c, u)
  \/ \E c \in Conns, from \in Users, to \in Users, t \in CallTypes,
        offer \in Payloads : CallUser(c, from, to, t, offer)
  \/ \E c \in Conns, id \in CallIds, answer \in Payloads :
        AcceptCall(c, id, answer)
  \/ \E c \in Conns, id \in CallIds : RejectCall(c, id)
  \/ \E c \in Conns, id \in CallIds : EndCall(c, id)
  \/ \E c \in Conns : Disconnect(c)

Spec == Init /\ [][Next]_vars

\* ------------------------------------------------------------ relays
\* The handlers that relay and touch neither Map, with the rest.
NextRelay ==
  \/ Next
  \/ \E c \in Conns, to \in Users, cand \in Payloads : IceCandidate(c, to, cand)
  \/ \E c \in Conns, to \in Users : Typing(c, to)
  \/ \E c \in Conns : Ping(c)

SpecRelay == Init /\ [][NextRelay]_vars

\* -------------------------------------------------- any client payload
\* The process has ended: the exception of a handler reached the event
\* loop, and index.js installs no uncaughtException handler.
Crashed == out = Thrown

\* The handlers of Next, call_user also with a payload that lacks `from`.
\* Nothing is handled once the process has ended.
NextAnyPayload ==
  \/ ~ Crashed /\ Connection
  \/ ~ Crashed /\ \E c \in Conns, u \in Users : Join(c, u)
  \/ ~ Crashed /\ \E c \in Conns, from \in Users \cup {None}, to \in Users,
                     t \in CallTypes, offer \in Payloads :
                       CallUser(c, from, to, t, offer)
  \/ ~ Crashed /\ \E c \in Conns, id \in CallIds, answer \in Payloads :
                       AcceptCall(c, id, answer)
  \/ ~ Crashed /\ \E c \in Conns, id \in CallIds : RejectCall(c, id)
  \/ ~ Crashed /\ \E c \in Conns, id \in CallIds : EndCall(c, id)
  \/ ~ Crashed /\ \E c \in Conns : Disconnect(c)

SpecAnyPayload == Init /\ [][NextAnyPayload]_vars

\* ------------------------------------------------------------- login
\* The username and password a request body may carry; "" stands for a
\* field that is empty or absent.
Usernames == {"", "alice", "bob", "carol"}
Passwords == {"", "pw1", "pw2"}

\* LoginGuard as it would be were the username alone required.
LoginGuardUsername(username, password) == username # ""

\* The negation of `!username || !password`.
LoginGuard(username, password) == username # "" /\ password # ""

\* The loop over users.entries() looking for the username.
RECURSIVE FindUser(_, _)
FindUser(us, username) ==
  IF us = <<>> THEN Undefined
  ELSE IF Head(us).username = username THEN Head(us)
  ELSE FindUser(Tail(us), username)

\* The user the endpoint stores and returns: the existing one with
\* isOnline reset, or a new one under a fresh uuid.
LoginUser(us, username) ==
  LET existingUser == FindUser(us, username) IN
    IF existingUser # Undefined
    THEN [existingUser EXCEPT !.isOnline = FALSE]
    ELSE [id |-> Len(us) + 1, username |-> username, isOnline |-> FALSE]

\* res.status(400).json({ error: ... })
BadRequest == [status |-> 400, error |-> "Username and password required"]

\* res.json({ user, token: user.id })
LoginOk(user) == [status |-> 200, user |-> user, token |-> user.id]

\* app.post('/api/login')
Login(username, password) ==
  /\ http' =
       IF ~ LoginGuard(username, password)
       THEN [http EXCEPT !.req = [username |-> username, password |-> password],
                         !.res = BadRequest]
       ELSE LET user == LoginUser(http.users, username) IN
              [users |-> MapSet(http.users, user.id, user),
               req   |-> [username |-> username, password |-> password],
               res   |-> LoginOk(user)]
  /\ UNCHANGED <<nextConn, connected, sockUserId, activeUsers, calls,
                 nextCallId, last, out, pre, clientVars, vite>>

NextLogin == \E username \in Usernames, password \in Passwords :
               Login(username, password)

SpecLogin == Init /\ [][NextLogin]_vars

\* ------------------------------------------------------------- the client
\* src/src/components/Dashboard.tsx with the WebRTCService of
\* src/src/services/webrtc.ts, for one logged-in user.  A socket listener or
\* a click handler runs until its first await on a browser operation
\* (enumerateDevices, getUserMedia, createOffer, createAnswer,
\* setRemoteDescription); what follows the await is a continuation in
\* `pending` that runs as a later step, with the values its closure captured.
\* An await on a function that awaits nothing itself (initializePeerConnection)
\* resumes before any other event and does not split the step.
\* `signaling` is the other side: the calls the server holds for this user
\* and the call_user requests it has not answered yet.

\* The value of currentCall and of incomingCall when they are null.
NoCall == [status |-> "null", id |-> None, otherUser |-> None]
NoIncoming == [callId |-> None, from |-> None]

\* new RTCPeerConnection(configuration)
NewPc == [closed |-> FALSE, localDescription |-> "none",
          remoteDescription |-> None]

\* A continuation: the handler, the await it is parked on, and what its
\* closure holds (the RTCPeerConnection the awaited method was called on,
\* the call id and the other user).
Continuation(op, at, pc, callId, user) ==
  [op |-> op, at |-> at, pc |-> pc, callId |-> callId, user |-> user]

\* The user has not clicked again while the handler of the click is parked.
Parked(op) == \E t \in pending : t.op = op

\* WebRTCService.initializePeerConnection
initializePeerConnection(w) ==
  [w EXCEPT !.pcs = Append(@, NewPc), !.peerConnection = Len(w.pcs) + 1]

\* WebRTCService.hangup
hangup(w) ==
  [w EXCEPT !.pcs = IF w.peerConnection # None
                    THEN [@ EXCEPT ![w.peerConnection].closed = TRUE]
                    ELSE @,
            !.peerConnection = None,
            !.localStream = FALSE,
            !.onRemoteStream = FALSE,
            !.onIceCandidate = None]

\* WebRTCService.getLocalStream up to its first await: the stream the
\* service holds is stopped and forgotten.
stopLocalStream(w) == [w EXCEPT !.localStream = FALSE]

\* WebRTCService.addIceCandidate: whether the candidate reaches the
\* RTCPeerConnection.
addIceCandidate(w) ==
  /\ w.peerConnection # None
  /\ w.pcs[w.peerConnection].remoteDescription # None

\* RTCPeerConnection.setRemoteDescription of an offer, setLocalDescription
\* of an offer, setRemoteDescription of an answer and createAnswer with
\* setLocalDescription: the signaling states in which each resolves.
CanSetRemoteOffer(pc) ==
  ~ pc.closed /\ pc.localDescription = "none" /\ pc.remoteDescription = None
CanSetLocalOffer(pc) ==
  ~ pc.closed /\ pc.localDescription = "none" /\ pc.remoteDescription = None
CanSetRemoteAnswer(pc) ==
  ~ pc.closed /\ pc.localDescription = "offer" /\ pc.remoteDescription = None
CanSetLocalAnswer(pc) ==
  ~ pc.closed /\ pc.localDescription = "none" /\ pc.remoteDescription # None

\* The server drops the record of a call this client rejected or ended.
Dropped(s, callId) ==
  [s EXCEPT !.calls = {c \in @ : c.id # callId}]

\* The server marks a ringing call of this callee active on accept_call.
Accepted(s, callId) ==
  [s EXCEPT !.calls = {IF c.id = callId /\ c.dir = "in"
                       THEN [c EXCEPT !.status = "active"] ELSE c : c \in @}]

\* socket.on('incoming_call'), up to the await on setRemoteDescription.
OnIncomingCall(from) ==
  /\ signaling.nextCallId <= MaxClientCalls
  /\ Len(webrtcService.pcs) < MaxPcs
  /\ LET callId == signaling.nextCallId
         w == initializePeerConnection(webrtcService) IN
       /\ dashboard' = [dashboard EXCEPT
                          !.incomingCall = [callId |-> callId, from |-> from]]
       /\ webrtcService' = w
       /\ pending' = pending \cup
            {Continuation("incoming_call", "setRemoteDescription",
                          w.peerConnection, callId, from)}
       /\ signaling' = [signaling EXCEPT
            !.calls = @ \cup {[id |-> callId, dir |-> "in",
                               status |-> "ringing"]},
            !.nextCallId = @ + 1]
       /\ did' = "incoming_call"
  /\ UNCHANGED <<ice, serverVars, vite>>

\* socket.on('incoming_call'), from the await on: the offer is applied to
\* the RTCPeerConnection the handler created, and the two callbacks are set.
OnIncomingCallResume(t) ==
  /\ t \in pending /\ t.op = "incoming_call"
  /\ pending' = pending \ {t}
  /\ webrtcService' =
       IF CanSetRemoteOffer(webrtcService.pcs[t.pc])
       THEN [webrtcService EXCEPT !.pcs[t.pc].remoteDescription = t.callId,
                                  !.onRemoteStream = TRUE,
                                  !.onIceCandidate = t.user]
       ELSE webrtcService
  /\ did' = "incoming_call_resume"
  /\ UNCHANGED <<serverVars, vite>>
  /\ UNCHANGED <<dashboard, signaling, ice>>

\* socket.on('call_accepted'), up to the await inside setRemoteDescription;
\* without a peer connection setRemoteDescription throws and the handler
\* ends in its catch.
OnCallAccepted(c) ==
  /\ c \in signaling.calls /\ c.dir = "out" /\ c.status = "ringing"
  /\ signaling' = [signaling EXCEPT
       !.calls = (@ \ {c}) \cup {[c EXCEPT !.status = "active"]}]
  /\ pending' =
       IF webrtcService.peerConnection # None
       THEN pending \cup
              {Continuation("call_accepted", "setRemoteDescription",
                    webrtcService.peerConnection, c.id, None)}
       ELSE pending
  /\ did' = "call_accepted"
  /\ UNCHANGED <<serverVars, vite>>
  /\ UNCHANGED <<dashboard, webrtcService, ice>>

\* socket.on('call_accepted'), from the await on.
OnCallAcceptedResume(t) ==
  /\ t \in pending /\ t.op = "call_accepted"
  /\ pending' = pending \ {t}
  /\ IF CanSetRemoteAnswer(webrtcService.pcs[t.pc])
     THEN /\ webrtcService' =
               [webrtcService EXCEPT !.pcs[t.pc].remoteDescription = t.callId]
          /\ dashboard' =
               IF dashboard.currentCall # NoCall
               THEN [dashboard EXCEPT !.currentCall.id = t.callId,
                                      !.currentCall.status = "connected"]
               ELSE dashboard
     ELSE UNCHANGED <<webrtcService, dashboard>>
  /\ did' = "call_accepted_resume"
  /\ UNCHANGED <<serverVars, vite>>
  /\ UNCHANGED <<signaling, ice>>

\* socket.on('call_rejected')
OnCallRejected(c) ==
  /\ c \in signaling.calls /\ c.dir = "out" /\ c.status = "ringing"
  /\ signaling' = Dropped(signaling, c.id)
  /\ dashboard' = [dashboard EXCEPT !.currentCall = NoCall]
  /\ webrtcService' = hangup(webrtcService)
  /\ did' = "call_rejected"
  /\ UNCHANGED <<serverVars, vite>>
  /\ UNCHANGED <<pending, ice>>

\* socket.on('call_ended'): the other side ended a call or disconnected.
OnCallEnded(c) ==
  /\ c \in signaling.calls
  /\ signaling' = Dropped(signaling, c.id)
  /\ dashboard' = [currentCall |-> NoCall, incomingCall |-> NoIncoming]
  /\ webrtcService' = hangup(webrtcService)
  /\ did' = "call_ended"
  /\ UNCHANGED <<serverVars, vite>>
  /\ UNCHANGED <<pending, ice>>

\* A call is being set up with a peer that has this client's offer or
\* answer and so may send candidates.
SettingUp ==
  \E c \in signaling.calls : c.dir = "in" \/ c.status = "active"

\* socket.on('ice_candidate'): candidates are numbered as they arrive.
OnIceCandidate ==
  /\ SettingUp
  /\ Cardinality(ice.received) < MaxCandidates
  /\ LET k == Cardinality(ice.received) + 1 IN
       /\ ice' = [received |-> ice.received \cup {k},
                  added |-> IF addIceCandidate(webrtcService)
                            THEN ice.added \cup {k} ELSE ice.added]
       /\ did' = "ice_candidate"
  /\ UNCHANGED <<dashboard, webrtcService, pending, signaling, serverVars,
                 vite>>

\* socket.on('call_status'): the server's answer to a call_user.
OnCallStatus(status) ==
  /\ signaling.requested > 0
  /\ status = "ringing" => signaling.nextCallId <= MaxClientCalls
  /\ signaling' =
       IF status = "ringing"
       THEN [calls |-> signaling.calls \cup
                         {[id |-> signaling.nextCallId, dir |-> "out",
                           status |-> "ringing"]},
             requested |-> signaling.requested - 1,
             nextCallId |-> signaling.nextCallId + 1]
       ELSE [signaling EXCEPT !.requested = @ - 1]
  /\ dashboard' =
       IF status = "user_offline"
       THEN [dashboard EXCEPT !.currentCall = NoCall]
       ELSE IF dashboard.currentCall # NoCall
            THEN [dashboard EXCEPT !.currentCall.status = "ringing"]
            ELSE dashboard
  /\ did' = IF status = "ringing" THEN "call_status_ringing"
             ELSE "call_status_user_offline"
  /\ UNCHANGED <<serverVars, vite>>
  /\ UNCHANGED <<webrtcService, pending, ice>>

\* handleCall, up to the await on checkMediaDevices.
handleCall(targetUser) ==
  /\ ~ Parked("handleCall")
  /\ pending' = pending \cup
       {Continuation("handleCall", "checkMediaDevices", None, None, targetUser)}
  /\ did' = "handleCall"
  /\ UNCHANGED <<serverVars, vite>>
  /\ UNCHANGED <<dashboard, webrtcService, signaling, ice>>

\* handleCall from checkMediaDevices to the await inside getLocalStream.
handleCallDevices(t, hasAudio) ==
  /\ t \in pending /\ t.op = "handleCall" /\ t.at = "checkMediaDevices"
  /\ hasAudio => Len(webrtcService.pcs) < MaxPcs
  /\ IF ~ hasAudio
     THEN /\ pending' = pending \ {t}
          /\ UNCHANGED <<dashboard, webrtcService>>
     ELSE /\ dashboard' = [dashboard EXCEPT !.currentCall =
                 [status |-> "calling", id |-> None, otherUser |-> t.user]]
          /\ webrtcService' =
               stopLocalStream(initializePeerConnection(webrtcService))
          /\ pending' = (pending \ {t}) \cup
               {Continuation("handleCall", "getLocalStream", None, None, t.user)}
  /\ did' = "handleCall_devices"
  /\ UNCHANGED <<serverVars, vite>>
  /\ UNCHANGED <<signaling, ice>>

\* handleCall from getLocalStream to the await inside createOffer.  A
\* failed getUserMedia ends the handler in the inner catch; addLocalStream
\* without a peer connection throws into the outer catch.
handleCallStream(t, granted) ==
  /\ t \in pending /\ t.op = "handleCall" /\ t.at = "getLocalStream"
  /\ IF ~ granted
     THEN /\ dashboard' = [dashboard EXCEPT !.currentCall = NoCall]
          /\ pending' = pending \ {t}
          /\ UNCHANGED webrtcService
     ELSE IF webrtcService.peerConnection = None
     THEN /\ webrtcService' = [webrtcService EXCEPT !.localStream = TRUE]
          /\ dashboard' = [dashboard EXCEPT !.currentCall = NoCall]
          /\ pending' = pending \ {t}
     ELSE /\ webrtcService' = [webrtcService EXCEPT
                                 !.localStream = TRUE,
                                 !.onRemoteStream = TRUE,
                                 !.onIceCandidate = t.user]
          /\ pending' = (pending \ {t}) \cup
               {Continuation("handleCall", "createOffer",
                     webrtcService.peerConnection, None, t.user)}
          /\ UNCHANGED dashboard
  /\ did' = "handleCall_stream"
  /\ UNCHANGED <<serverVars, vite>>
  /\ UNCHANGED <<signaling, ice>>

\* handleCall from createOffer on: call_user is emitted, or the outer catch
\* clears currentCall.
handleCallOffer(t) ==
  /\ t \in pending /\ t.op = "handleCall" /\ t.at = "createOffer"
  /\ pending' = pending \ {t}
  /\ IF CanSetLocalOffer(webrtcService.pcs[t.pc])
     THEN /\ webrtcService' =
               [webrtcService EXCEPT !.pcs[t.pc].localDescription = "offer"]
          /\ signaling' = [signaling EXCEPT !.requested = @ + 1]
          /\ UNCHANGED dashboard
     ELSE /\ dashboard' = [dashboard EXCEPT !.currentCall = NoCall]
          /\ UNCHANGED <<webrtcService, signaling>>
  /\ did' = "handleCall_offer"
  /\ UNCHANGED <<serverVars, vite>>
  /\ UNCHANGED ice

\* handleRejectCall as the render that captured incomingCall.callId = callId
\* runs it: reject_call is emitted, incomingCall cleared, the service hung up.
RejectCallOf(callId) ==
  /\ signaling' = Dropped(signaling, callId)
  /\ dashboard' = [dashboard EXCEPT !.incomingCall = NoIncoming]
  /\ webrtcService' = hangup(webrtcService)

\* handleAcceptCall, up to the await on checkMediaDevices.
handleAcceptCall ==
  /\ dashboard.incomingCall # NoIncoming
  /\ ~ Parked("handleAcceptCall")
  /\ pending' = pending \cup
       {Continuation("handleAcceptCall", "checkMediaDevices", None,
             dashboard.incomingCall.callId, dashboard.incomingCall.from)}
  /\ did' = "handleAcceptCall"
  /\ UNCHANGED <<serverVars, vite>>
  /\ UNCHANGED <<dashboard, webrtcService, signaling, ice>>

\* handleAcceptCall from checkMediaDevices to the await inside getLocalStream.
handleAcceptCallDevices(t, hasAudio) ==
  /\ t \in pending /\ t.op = "handleAcceptCall" /\ t.at = "checkMediaDevices"
  /\ IF ~ hasAudio
     THEN /\ RejectCallOf(t.callId)
          /\ pending' = pending \ {t}
     ELSE /\ webrtcService' = stopLocalStream(webrtcService)
          /\ pending' = (pending \ {t}) \cup
               {Continuation("handleAcceptCall", "getLocalStream", None, t.callId,
                     t.user)}
          /\ UNCHANGED <<dashboard, signaling>>
  /\ did' = "handleAcceptCall_devices"
  /\ UNCHANGED <<serverVars, vite>>
  /\ UNCHANGED ice

\* handleAcceptCall from getLocalStream to the await inside createAnswer.
handleAcceptCallStream(t, granted) ==
  /\ t \in pending /\ t.op = "handleAcceptCall" /\ t.at = "getLocalStream"
  /\ IF ~ granted
     THEN /\ RejectCallOf(t.callId)
          /\ pending' = pending \ {t}
     ELSE IF webrtcService.peerConnection = None
     THEN /\ signaling' = Dropped(signaling, t.callId)
          /\ dashboard' = [dashboard EXCEPT !.incomingCall = NoIncoming]
          /\ webrtcService' =
               hangup([webrtcService EXCEPT !.localStream = TRUE])
          /\ pending' = pending \ {t}
     ELSE /\ webrtcService' = [webrtcService EXCEPT !.localStream = TRUE]
          /\ pending' = (pending \ {t}) \cup
               {Continuation("handleAcceptCall", "createAnswer",
                     webrtcService.peerConnection, t.callId, t.user)}
          /\ UNCHANGED <<dashboard, signaling>>
  /\ did' = "handleAcceptCall_stream"
  /\ UNCHANGED <<serverVars, vite>>
  /\ UNCHANGED ice

\* handleAcceptCall from createAnswer on: accept_call is emitted and the
\* call becomes the current one, or the outer catch rejects the call.
handleAcceptCallAnswer(t) ==
  /\ t \in pending /\ t.op = "handleAcceptCall" /\ t.at = "createAnswer"
  /\ pending' = pending \ {t}
  /\ IF CanSetLocalAnswer(webrtcService.pcs[t.pc])
     THEN /\ webrtcService' =
               [webrtcService EXCEPT !.pcs[t.pc].localDescription = "answer"]
          /\ signaling' = Accepted(signaling, t.callId)
          /\ dashboard' =
               [currentCall |-> [status |-> "connected", id |-> t.callId,
                                 otherUser |-> t.user],
                incomingCall |-> NoIncoming]
     ELSE RejectCallOf(t.callId)
  /\ did' = "handleAcceptCall_answer"
  /\ UNCHANGED <<serverVars, vite>>
  /\ UNCHANGED ice

\* handleRejectCall, clicked in the incoming-call modal.
handleRejectCall ==
  /\ dashboard.incomingCall # NoIncoming
  /\ RejectCallOf(dashboard.incomingCall.callId)
  /\ did' = "handleRejectCall"
  /\ UNCHANGED <<serverVars, vite>>
  /\ UNCHANGED <<pending, ice>>

\* handleEndCall, clicked in the CallInterface of a connected call.
handleEndCall ==
  /\ dashboard.currentCall.status = "connected"
  /\ signaling' = IF dashboard.currentCall.id # None
                  THEN Dropped(signaling, dashboard.currentCall.id)
                  ELSE signaling
  /\ dashboard' = [currentCall |-> NoCall, incomingCall |-> NoIncoming]
  /\ webrtcService' = hangup(webrtcService)
  /\ did' = "handleEndCall"
  /\ UNCHANGED <<serverVars, vite>>
  /\ UNCHANGED <<pending, ice>>

\* The continuations: what the browser runs when an awaited operation ends.
Resume ==
  \/ \E t \in pending : OnIncomingCallResume(t)
  \/ \E t \in pending : OnCallAcceptedResume(t)
  \/ \E t \in pending, hasAudio \in BOOLEAN : handleCallDevices(t, hasAudio)
  \/ \E t \in pending, granted \in BOOLEAN : handleCallStream(t, granted)
  \/ \E t \in pending : handleCallOffer(t)
  \/ \E t \in pending, hasAudio \in BOOLEAN :
       handleAcceptCallDevices(t, hasAudio)
  \/ \E t \in pending, granted \in BOOLEAN : handleAcceptCallStream(t, granted)
  \/ \E t \in pending : handleAcceptCallAnswer(t)

NextDashboard ==
  \/ \E from \in Peers : OnIncomingCall(from)
  \/ \E c \in signaling.calls : OnCallAccepted(c)
  \/ \E c \in signaling.calls : OnCallRejected(c)
  \/ \E c \in signaling.calls : OnCallEnded(c)
  \/ OnIceCandidate
  \/ \E status \in {"ringing", "user_offline"} : OnCallStatus(status)
  \/ \E targetUser \in Peers : handleCall(targetUser)
  \/ handleAcceptCall
  \/ handleRejectCall
  \/ handleEndCall
  \/ Resume

SpecDashboard == Init /\ [][NextDashboard]_vars

\* The browser ends every operation a handler awaits.
SpecDashboardLive == SpecDashboard /\ WF_vars(Resume)

\* --------------------------------------------- the server of vite.config.ts
\* The second server, appended to src/vite.config.ts.  Its users Map is
\* keyed by socket.id and holds {id, socketId}; its activeCalls Map holds
\* {id, caller, callee, status}, caller being the `from` object of the
\* payload as it came and callee the users entry found for `to`.  Every
\* handler runs to completion and is one action.  vite.last is the event
\* handled, vite.out what the handler emitted, vite.pre the two Maps as the
\* handler found them.  GET /api/users and POST /api/login write nothing.

\* An outbound event of this server and the sockets it is addressed to.
ViteMsg(ev, to, status, callId, list) ==
  [ev |-> ev, to |-> to, status |-> status, callId |-> callId, list |-> list]

\* An inbound event of this server.
ViteEvt(ev, conn, id, callId) ==
  [ev |-> ev, conn |-> conn, id |-> id, callId |-> callId]

\* Array.from(users.values())
OnlineUsers(us) == [i \in 1..Len(us) |-> us[i].user]

\* Array.from(users.values()).find(user => user.id === to)
RECURSIVE FindTarget(_, _)
FindTarget(us, to) ==
  IF us = <<>> THEN Undefined
  ELSE IF Head(us).user.id = to THEN Head(us).user
  ELSE FindTarget(Tail(us), to)

\* io.to(room): the open sockets in the room.  A socket is in the room of
\* its own id and in no other; None stands for undefined.
Room(v, room) == IF room = None THEN {} ELSE {room} \cap v.connected

\* io.to(call.caller.socketId || call.caller.id): without a socketId the
\* room is named by the caller's user id, and no socket is in it.
CallerRoom(v, call) == Room(v, call.caller.socketId)

\* Connections opened plus call records created.
ViteUsed(v) == (v.nextConn - 1) + (v.nextCallId - 1)

\* The state a handler leaves, given what it changed.
ViteDone(v, evt, emitted) ==
  [v EXCEPT !.last = evt, !.out = emitted,
            !.pre = [users |-> vite.users, activeCalls |-> vite.activeCalls]]

\* io.on('connection')
ViteConnection ==
  /\ vite.nextConn <= MaxConns
  /\ ViteUsed(vite) < MaxTotal
  /\ vite' = ViteDone([vite EXCEPT !.connected = @ \cup {vite.nextConn},
                                   !.nextConn = @ + 1],
                      ViteEvt("connection", vite.nextConn, None, None), <<>>)
  /\ UNCHANGED <<serverVars, clientVars>>

\* users.set(socket.id, user)
ViteRegister(us, c, u) ==
  MapSet(us, c, [id |-> c, user |-> [id |-> u, socketId |-> c]])

\* socket.on('join')
ViteJoin(c, u) ==
  /\ c \in vite.connected
  /\ LET us == ViteRegister(vite.users, c, u) IN
       vite' = ViteDone([vite EXCEPT !.users = us],
                        ViteEvt("join", c, u, None),
                        << ViteMsg("join_success", {c}, "", None,
                                   OnlineUsers(us)),
                           ViteMsg("users_updated", vite.connected, "", None,
                                   OnlineUsers(us)) >>)
  /\ UNCHANGED <<serverVars, clientVars>>

\* The `from` of a call_user: the client sends its logged-in user, {id,
\* username}; the handlers also read a socketId, which a client may add.
From(u, socketId) == [id |-> u, socketId |-> socketId]

\* socket.on('call_user'), sent by a socket that has joined, with its own
\* user as `from`.
ViteCallUser(c, to, withSocketId) ==
  /\ c \in vite.connected
  /\ MapHas(vite.users, c)
  /\ LET targetUser == FindTarget(vite.users, to)
         from == From(MapGet(vite.users, c).user.id,
                      IF withSocketId THEN c ELSE None)
         callId == vite.nextCallId
         evt == ViteEvt("call_user", c, to, None) IN
       IF targetUser = Undefined
       THEN vite' = ViteDone(vite, evt,
                      << ViteMsg("call_status", {c}, "user_offline", None,
                                 <<>>) >>)
       ELSE /\ callId <= MaxCalls
            /\ ViteUsed(vite) < MaxTotal
            /\ vite' = ViteDone(
                 [vite EXCEPT
                    !.activeCalls = MapSet(@, callId,
                       [id |-> callId, caller |-> from,
                        callee |-> targetUser, status |-> "ringing"]),
                    !.nextCallId = @ + 1],
                 evt,
                 << ViteMsg("incoming_call", Room(vite, targetUser.socketId),
                            "", callId, <<>>),
                    ViteMsg("call_status", {c}, "ringing", None, <<>>) >>)
  /\ UNCHANGED <<serverVars, clientVars>>

\* socket.on('accept_call')
ViteAcceptCall(c, callId) ==
  /\ c \in vite.connected
  /\ LET call == MapGet(vite.activeCalls, callId)
         evt == ViteEvt("accept_call", c, None, callId) IN
       IF call = Undefined
       THEN vite' = ViteDone(vite, evt, <<>>)
       ELSE vite' = ViteDone(
              [vite EXCEPT !.activeCalls =
                 MapSet(@, callId, [call EXCEPT !.status = "connected"])],
              evt,
              << ViteMsg("call_accepted", CallerRoom(vite, call), "", callId,
                         <<>>) >>)
  /\ UNCHANGED <<serverVars, clientVars>>

\* socket.on('reject_call')
ViteRejectCall(c, callId) ==
  /\ c \in vite.connected
  /\ LET call == MapGet(vite.activeCalls, callId)
         evt == ViteEvt("reject_call", c, None, callId) IN
       IF call = Undefined
       THEN vite' = ViteDone(vite, evt, <<>>)
       ELSE vite' = ViteDone(
              [vite EXCEPT !.activeCalls = MapDelete(@, callId)], evt,
              << ViteMsg("call_rejected", CallerRoom(vite, call), "", None,
                         <<>>) >>)
  /\ UNCHANGED <<serverVars, clientVars>>

\* socket.on('end_call')
ViteEndCall(c, callId) ==
  /\ c \in vite.connected
  /\ LET call == MapGet(vite.activeCalls, callId)
         evt == ViteEvt("end_call", c, None, callId) IN
       IF call = Undefined
       THEN vite' = ViteDone(vite, evt, <<>>)
       ELSE vite' = ViteDone(
              [vite EXCEPT !.activeCalls = MapDelete(@, callId)], evt,
              << ViteMsg("call_ended", CallerRoom(vite, call), "", None,
                         <<>>),
                 ViteMsg("call_ended", Room(vite, call.callee.socketId), "",
                         None, <<>>) >>)
  /\ UNCHANGED <<serverVars, clientVars>>

\* socket.on('ice_candidate')
ViteIceCandidate(c, to) ==
  /\ c \in vite.connected
  /\ LET targetUser == FindTarget(vite.users, to)
         evt == ViteEvt("ice_candidate", c, to, None) IN
       vite' = ViteDone(vite, evt,
                 IF targetUser = Undefined THEN <<>>
                 ELSE << ViteMsg("ice_candidate",
                                 Room(vite, targetUser.socketId), "", None,
                                 <<>>) >>)
  /\ UNCHANGED <<serverVars, clientVars>>

\* The test of the disconnect loop: the call names the socket as its
\* caller's or as its callee's.
ViteInvolves(call, c) ==
  call.caller.socketId = c \/ call.callee.socketId = c

\* otherSocketId of the disconnect loop.
OtherSocketId(call, c) ==
  IF call.caller.socketId = c THEN call.callee.socketId
  ELSE call.caller.socketId

\* socket.on('disconnect'): the socket has left its room already.
ViteDisconnect(c) ==
  /\ c \in vite.connected
  /\ LET open == vite.connected \ {c}
         v == [vite EXCEPT !.connected = open]
         evt == ViteEvt("disconnect", c, None, None)
         ended == SelectSeq(vite.activeCalls,
                            LAMBDA call : ViteInvolves(call, c))
         us == MapDelete(vite.users, c) IN
       IF ~ MapHas(vite.users, c)
       THEN vite' = ViteDone(v, evt, <<>>)
       ELSE vite' = ViteDone(
              [v EXCEPT !.activeCalls =
                          SelectSeq(@, LAMBDA call : ~ ViteInvolves(call, c)),
                        !.users = us],
              evt,
              [i \in 1..Len(ended) |->
                 ViteMsg("call_ended", Room(v, OtherSocketId(ended[i], c)),
                         "", ended[i].id, <<>>)]
              \o << ViteMsg("users_updated", open, "", None,
                            OnlineUsers(us)) >>)
  /\ UNCHANGED <<serverVars, clientVars>>

NextVite ==
  \/ ViteConnection
  \/ \E c \in Conns, u \in Users : ViteJoin(c, u)
  \/ \E c \in Conns, to \in Users, withSocketId \in BOOLEAN :
       ViteCallUser(c, to, withSocketId)
  \/ \E c \in Conns, callId \in CallIds : ViteAcceptCall(c, callId)
  \/ \E c \in Conns, callId \in CallIds : ViteRejectCall(c, callId)
  \/ \E c \in Conns, callId \in CallIds : ViteEndCall(c, callId)
  \/ \E c \in Conns, to \in Users : ViteIceCandidate(c, to)
  \/ \E c \in Conns : ViteDisconnect(c)

SpecVite == Init /\ [][NextVite]_vars

\* -------------------------------------------------------- properties
\* Helpers of the properties below.
NoDup(m) == \A i, j \in 1..Len(m) : m[i].id = m[j].id => i = j

\* The positions of `out` holding an event named ev.
Emitted(ev) == {i \in 1..Len(out) : out[i].ev = ev}

\* The positions of `out` holding an event named ev about call callId.
EmittedFor(ev, callId) == {i \in Emitted(ev) : out[i].callId = callId}

\* The records of a Map.
Records(m) == {m[i] : i \in 1..Len(m)}

\* The last step was the disconnect of a connection that had joined.
JoinedDisconnect == last.ev = "disconnect" /\ sockUserId[last.conn] # None

\* C1: activeUsers holds at most one entry per userId in every reachable
\* state; a join for a userId leaves exactly one entry for it, that entry
\* names the joining connection, and the registry grows by one entry only
\* if the userId was not in it.
C1_PresenceUnique ==
  /\ NoDup(activeUsers)
  /\ last.ev = "join" =>
       /\ MapHas(activeUsers, last.id)
       /\ MapGet(activeUsers, last.id).socketId = last.conn
       /\ Len(activeUsers) = Len(pre.activeUsers)
            + (IF MapHas(pre.activeUsers, last.id) THEN 0 ELSE 1)

\* A join for a userId that was online on another connection.
C1_Witness ==
  /\ last.ev = "join"
  /\ MapHas(pre.activeUsers, last.id)
  /\ MapGet(pre.activeUsers, last.id).socketId # last.conn
  /\ Len(activeUsers) = 2

\* C2: call_user adds a record to calls iff the target id was in
\* activeUsers when the request was handled; when it was not, calls is
\* unchanged, no incoming_call is emitted and the requesting connection is
\* sent call_status user_offline.
C2_CallCreationIffOnline ==
  last.ev = "call_user" =>
    LET online == MapHas(pre.activeUsers, last.to) IN
      /\ online <=> Len(calls) = Len(pre.calls) + 1
      /\ online <=> calls # pre.calls
      /\ ~online =>
           /\ Emitted("incoming_call") = {}
           /\ \E i \in Emitted("call_status") :
                 /\ out[i].status = "user_offline"
                 /\ out[i].to = {last.conn}

\* A call_user for an offline target handled while the table held a call.
C2_Witness ==
  /\ last.ev = "call_user"
  /\ ~MapHas(pre.activeUsers, last.to)
  /\ pre.calls # <<>>
  /\ pre.activeUsers # <<>>

ConnsOf(u) == {c \in connected : sockUserId[c] = u}

\* C4: when a connection joined as U disconnects, every record U took
\* part in is gone from calls, U has no presence entry, and for each of
\* those records the other participant, if it still holds an open
\* connection joined under its id, is sent exactly one call_ended with the
\* record's callId, on such a connection.
C4_DisconnectCascade ==
  JoinedDisconnect =>
    LET U == sockUserId[last.conn]
        mine == {r \in Records(pre.calls) : Involves(r, U)} IN
      /\ \A r \in mine : ~MapHas(calls, r.id)
      /\ ~MapHas(activeUsers, U)
      /\ \A r \in mine :
           LET P == OtherUserId(r, U) IN
             (P # U /\ ConnsOf(P) # {}) =>
               /\ Cardinality(EmittedFor("call_ended", r.id)) = 1
               /\ \A i \in EmittedFor("call_ended", r.id) :
                    out[i].to \cap ConnsOf(P) # {}

\* C5: a reject_call or end_call leaves no record under its callId, and
\* one that names a callId created earlier and no longer in calls (a
\* second reject_call or end_call) changes neither Map and emits nothing.
C5_SecondTerminationNoop ==
  last.ev \in {"reject_call", "end_call"} =>
    /\ ~MapHas(calls, last.callId)
    /\ (last.callId < nextCallId /\ ~MapHas(pre.calls, last.callId)) =>
         /\ activeUsers = pre.activeUsers
         /\ calls = pre.calls
         /\ out = <<>>

\* An end_call for a callId that was created and is gone, handled while
\* both Maps hold entries.
C5_Witness ==
  /\ last.ev = "end_call"
  /\ last.callId < nextCallId
  /\ ~MapHas(pre.calls, last.callId)
  /\ pre.calls # <<>>
  /\ Len(pre.activeUsers) = 2

\* C6: the handler of a join, or of the disconnect of a joined connection,
\* emits exactly one users_updated, addressed to every connection that is
\* open, whose list is activeUsers as the handler left it.
C6_BroadcastSnapshot ==
  (last.ev = "join" \/ JoinedDisconnect) =>
    /\ Cardinality(Emitted("users_updated")) = 1
    /\ \A i \in Emitted("users_updated") :
         /\ out[i].to = connected
         /\ out[i].list = activeUsers

\* The disconnect of a joined connection, with another connection open
\* and another user online.
C6_Witness ==
  /\ JoinedDisconnect
  /\ connected # {}
  /\ activeUsers # <<>>
  /\ activeUsers # pre.activeUsers

\* C7: the disconnect of a connection c1 joined as U, while U's presence
\* entry names another connection c2 that is open, leaves activeUsers and
\* calls as they were and emits no call_ended.
C7_StaleDisconnectKeepsPresence ==
  (/\ JoinedDisconnect
   /\ MapHas(pre.activeUsers, sockUserId[last.conn])
   /\ MapGet(pre.activeUsers, sockUserId[last.conn]).socketId # last.conn
   /\ MapGet(pre.activeUsers, sockUserId[last.conn]).socketId
        \in ConnsOf(sockUserId[last.conn]))
  => /\ activeUsers = pre.activeUsers
     /\ calls = pre.calls
     /\ Emitted("call_ended") = {}

\* C8: an accept_call for a record whose status is already connected
\* leaves calls as it was and emits no call_accepted.
C8_AcceptOnlyFromRinging ==
  (/\ last.ev = "accept_call"
   /\ MapHas(pre.calls, last.callId)
   /\ MapGet(pre.calls, last.callId).status = "connected")
  => /\ calls = pre.calls
     /\ Emitted("call_accepted") = {}

\* C9: a reject_call for a record whose status is connected leaves calls
\* as it was and emits no call_rejected; a connected record leaves calls
\* through end_call or the disconnect of a joined connection alone.
C9_RejectOnlyFromRinging ==
  /\ (/\ last.ev = "reject_call"
      /\ MapHas(pre.calls, last.callId)
      /\ MapGet(pre.calls, last.callId).status = "connected")
     => /\ calls = pre.calls
        /\ Emitted("call_rejected") = {}
  /\ \A r \in Records(pre.calls) :
       (r.status = "connected" /\ ~MapHas(calls, r.id)) =>
         \/ last.ev = "end_call" /\ last.callId = r.id
         \/ JoinedDisconnect

\* C10: a call_user whose target is online appends one record to calls,
\* ringing, under a callId no record has had; emits exactly one
\* incoming_call, to the socket of the target's presence entry, with that
\* callId and the from, callType and offer of the request; and exactly one
\* call_status, to the requesting socket, with status ringing and that
\* callId.
C10_CallUserOnline ==
  (last.ev = "call_user" /\ MapHas(pre.activeUsers, last.to)) =>
    LET callId == nextCallId - 1 IN
      /\ \A r \in Records(pre.calls) : r.id < callId
      /\ calls = Append(pre.calls, [id |-> callId, from |-> last.id,
                                    to |-> last.to, status |-> "ringing"])
      /\ Cardinality(Emitted("incoming_call")) = 1
      /\ \A i \in Emitted("incoming_call") :
           /\ out[i].to = {MapGet(pre.activeUsers, last.to).socketId}
           /\ out[i].callId = callId
           /\ out[i].from = last.id
           /\ out[i].callType = last.callType
           /\ out[i].payload = last.payload
      /\ Cardinality(Emitted("call_status")) = 1
      /\ \A i \in Emitted("call_status") :
           /\ out[i].to = {last.conn}
           /\ out[i].status = "ringing"
           /\ out[i].callId = callId

\* A second call_user, to an online callee on another connection, while
\* the first call is still in the table.
C10_Witness ==
  /\ last.ev = "call_user"
  /\ MapHas(pre.activeUsers, last.to)
  /\ MapGet(pre.activeUsers, last.to).socketId # last.conn
  /\ pre.calls # <<>>
  /\ Len(calls) = 2

\* The last step was ev, naming a record that calls held with status st.
Handled(ev, st) ==
  /\ last.ev = ev
  /\ MapHas(pre.calls, last.callId)
  /\ MapGet(pre.calls, last.callId).status = st

\* C11: an accept_call for a ringing record leaves the record in calls
\* with status connected and every other record as it was; when the
\* caller's id has a presence entry it emits exactly one call_accepted,
\* with the callId and the answer, to the socket that entry names at that
\* moment, and when it has none it emits no call_accepted.
C11_AcceptForwardsToRegistered ==
  Handled("accept_call", "ringing") =>
    LET call == MapGet(pre.calls, last.callId) IN
      /\ calls = MapSet(pre.calls, last.callId,
                        [call EXCEPT !.status = "connected"])
      /\ Len(out) = Cardinality(Emitted("call_accepted"))
      /\ IF MapHas(activeUsers, call.from)
         THEN /\ Cardinality(Emitted("call_accepted")) = 1
              /\ \A i \in Emitted("call_accepted") :
                   /\ out[i].to = {MapGet(activeUsers, call.from).socketId}
                   /\ out[i].callId = last.callId
                   /\ out[i].payload = last.payload
         ELSE Emitted("call_accepted") = {}

\* An accept_call sent by the callee's connection while two open
\* connections are joined as the caller and the caller's presence entry
\* names the later of them.
C11_Witness ==
  /\ Handled("accept_call", "ringing")
  /\ LET call == MapGet(pre.calls, last.callId) IN
       /\ call.from # call.to
       /\ sockUserId[last.conn] = call.to
       /\ Cardinality(ConnsOf(call.from)) = 2
       /\ MapHas(activeUsers, call.from)
       /\ \A c \in ConnsOf(call.from) :
            c <= MapGet(activeUsers, call.from).socketId
       /\ Emitted("call_accepted") # {}

\* The last step was ev, naming a record that calls held.
Found(ev) == last.ev = ev /\ MapHas(pre.calls, last.callId)

\* The connections of user u: the socket u's presence entry names and the
\* open connections whose latest join was under u.
Reaches(u) ==
  ConnsOf(u) \cup (IF MapHas(activeUsers, u)
                   THEN {MapGet(activeUsers, u).socketId} ELSE {})

\* C12: a reject_call for a record that calls holds, whose caller has a
\* presence entry, removes the record and emits exactly one event: a
\* call_rejected with the callId, addressed to the socket of the caller's
\* entry and to no connection of the callee.
C12_RejectNotifiesCallerOnly ==
  (/\ Found("reject_call")
   /\ MapGet(pre.calls, last.callId).from # MapGet(pre.calls, last.callId).to
   /\ MapHas(activeUsers, MapGet(pre.calls, last.callId).from))
  => LET call == MapGet(pre.calls, last.callId) IN
       /\ calls = MapDelete(pre.calls, last.callId)
       /\ Len(out) = 1
       /\ out[1].ev = "call_rejected"
       /\ out[1].callId = last.callId
       /\ out[1].to = {MapGet(activeUsers, call.from).socketId}
       /\ out[1].to \cap Reaches(call.to) = {}

\* The participant of call other than user u.
Peer(call, u) == IF call.from = u THEN call.to ELSE call.from

\* C13: an end_call for a record that calls holds, ringing or connected,
\* sent by a connection joined as one of its two distinct participants
\* while the other has a presence entry, removes the record and emits
\* exactly one event: a call_ended with the callId, addressed to the socket
\* of the other participant's entry and not to the requesting connection.
C13_EndNotifiesOtherOnly ==
  (/\ Found("end_call")
   /\ MapGet(pre.calls, last.callId).from # MapGet(pre.calls, last.callId).to
   /\ Involves(MapGet(pre.calls, last.callId), sockUserId[last.conn])
   /\ MapHas(activeUsers,
             Peer(MapGet(pre.calls, last.callId), sockUserId[last.conn])))
  => LET call  == MapGet(pre.calls, last.callId)
         other == Peer(call, sockUserId[last.conn])
     IN  /\ calls = MapDelete(pre.calls, last.callId)
         /\ Len(out) = 1
         /\ out[1].ev = "call_ended"
         /\ out[1].callId = last.callId
         /\ out[1].to = {MapGet(activeUsers, other).socketId}
         /\ last.conn \notin out[1].to

\* C14: an ice_candidate leaves activeUsers and calls as they were; when
\* the target id has a presence entry it emits exactly one ice_candidate,
\* carrying the candidate it was given and the sender's socket.userId, to
\* the socket that entry names; when it has none it emits nothing.
C14_IceCandidatePureRelay ==
  last.ev = "ice_candidate" =>
    /\ activeUsers = pre.activeUsers
    /\ calls = pre.calls
    /\ IF MapHas(activeUsers, last.to)
       THEN /\ Len(out) = 1
            /\ out[1].ev = "ice_candidate"
            /\ out[1].to = {MapGet(activeUsers, last.to).socketId}
            /\ out[1].payload = last.payload
            /\ out[1].from = sockUserId[last.conn]
       ELSE out = <<>>

\* An ice_candidate forwarded to a registered target while a call is
\* on record.
C14_Witness ==
  /\ last.ev = "ice_candidate"
  /\ MapHas(activeUsers, last.to)
  /\ sockUserId[last.conn] \notin {None, last.to}
  /\ Len(out) = 1
  /\ calls # <<>>

\* An ice_candidate dropped because its target has no presence entry,
\* while another user has one.
C14_WitnessDropped ==
  /\ last.ev = "ice_candidate"
  /\ ~ MapHas(activeUsers, last.to)
  /\ activeUsers # <<>>
  /\ out = <<>>

\* Connection c is the one user u is registered on: u's presence entry
\* names c, and c is open and joined as u.
RegisteredOn(u, c) ==
  /\ MapHas(activeUsers, u)
  /\ MapGet(activeUsers, u).socketId = c
  /\ c \in ConnsOf(u)

\* The last step was the caller's end_call for a record that calls held.
CallerEnded ==
  /\ Found("end_call")
  /\ MapGet(pre.calls, last.callId).from # MapGet(pre.calls, last.callId).to
  /\ RegisteredOn(MapGet(pre.calls, last.callId).from, last.conn)

\* The last step was the callee's accept_call for a ringing record whose
\* caller is registered on an open connection.
CalleeAccepted ==
  /\ Handled("accept_call", "ringing")
  /\ MapGet(pre.calls, last.callId).from # MapGet(pre.calls, last.callId).to
  /\ RegisteredOn(MapGet(pre.calls, last.callId).to, last.conn)
  /\ \E c \in connected : RegisteredOn(MapGet(pre.calls, last.callId).from, c)

\* C15: of the callee's accept_call and the caller's end_call for one
\* ringing record, the one handled first decides.  The caller's end_call,
\* on the record ringing or already connected, removes it and emits one
\* call_ended to the callee's socket; an accept_call that finds no record
\* changes nothing and emits nothing; the callee's accept_call on the
\* ringing record keeps it as connected and emits one call_accepted to the
\* caller's socket, after which the end_call is the first case again.
C15_AcceptEndRace ==
  /\ CallerEnded =>
       LET call == MapGet(pre.calls, last.callId) IN
         /\ ~ MapHas(calls, last.callId)
         /\ MapHas(activeUsers, call.to)
         /\ Len(out) = 1
         /\ out[1].ev = "call_ended"
         /\ out[1].callId = last.callId
         /\ out[1].to = {MapGet(activeUsers, call.to).socketId}
  /\ (last.ev = "accept_call" /\ ~ MapHas(pre.calls, last.callId)) =>
       /\ calls = pre.calls
       /\ out = <<>>
  /\ CalleeAccepted =>
       LET call == MapGet(pre.calls, last.callId) IN
         /\ MapGet(calls, last.callId) = [call EXCEPT !.status = "connected"]
         /\ Len(out) = 1
         /\ out[1].ev = "call_accepted"
         /\ out[1].callId = last.callId
         /\ out[1].to = {MapGet(activeUsers, call.from).socketId}

\* The accept-first order: the caller's end_call removes a record that an
\* earlier accept_call had set to connected.
C15_Witness ==
  /\ CallerEnded
  /\ MapGet(pre.calls, last.callId).status = "connected"
  /\ RegisteredOn(MapGet(pre.calls, last.callId).to,
                  MapGet(activeUsers, MapGet(pre.calls, last.callId).to).socketId)
  /\ Emitted("call_ended") # {}

\* The end-first order: the callee's accept_call names a callId that was
\* issued and is no longer in calls.
C15_WitnessEndFirst ==
  /\ last.ev = "accept_call"
  /\ last.callId < nextCallId
  /\ ~ MapHas(pre.calls, last.callId)
  /\ sockUserId[last.conn] # None
  /\ out = <<>>

\* C16: no inbound event, in any reachable state and from any connection,
\* joined or not, makes its handler end by an exception.
C16_NoHandlerRaises == Emitted("TypeError") = {}

\* The last step was a call_user that created a record.
Created == last.ev = "call_user" /\ Len(calls) = Len(pre.calls) + 1

\* C17: when a call_user creates a record, the callee id and the caller
\* id it was given both have a presence entry.
C17_ParticipantsOnlineAtCreation ==
  Created =>
    LET call == calls[Len(calls)] IN
      /\ call.from = last.id
      /\ call.to = last.to
      /\ MapHas(activeUsers, call.to)
      /\ MapHas(activeUsers, call.from)

\* C18: in every reachable state the socket named by each presence entry
\* is an open connection; no entry names a connection that has
\* disconnected.
C18_PresenceOnlyWhileConnected ==
  \A i \in 1..Len(activeUsers) : activeUsers[i].socketId \in connected

\* C19: callIds are distinct, a call_user that creates a record leaves
\* every earlier record as it was, and an accept_call, reject_call or
\* end_call changes no record but the one it names and emits only events
\* carrying that callId, also when other records join the same two users.
C19_CallsIndependent ==
  /\ NoDup(calls)
  /\ Created =>
       /\ ~ MapHas(pre.calls, calls[Len(calls)].id)
       /\ SubSeq(calls, 1, Len(pre.calls)) = pre.calls
  /\ last.ev \in {"accept_call", "reject_call", "end_call"} =>
       /\ MapDelete(calls, last.callId) = MapDelete(pre.calls, last.callId)
       /\ \A i \in 1..Len(out) : out[i].callId = last.callId

\* A reject_call or end_call for one of two records that join the same
\* caller and callee: it emits an event and the other record is still there.
C19_Witness ==
  /\ last.ev \in {"reject_call", "end_call"}
  /\ MapHas(pre.calls, last.callId)
  /\ out # <<>>
  /\ \E i \in 1..Len(calls) :
       /\ calls[i].from = MapGet(pre.calls, last.callId).from
       /\ calls[i].to = MapGet(pre.calls, last.callId).to
       /\ calls[i].from # calls[i].to

\* C20: a ringing record is in calls, unchanged, after every step other
\* than an accept_call, reject_call or end_call naming it and the
\* disconnect of a connection joined as one of its participants: a join,
\* a call_user, an ice_candidate, a typing, a ping and any other
\* disconnect leave it as it was.
C20_RingingUntilHandled ==
  \A i \in 1..Len(pre.calls) :
    pre.calls[i].status = "ringing" =>
      \/ MapGet(calls, pre.calls[i].id) = pre.calls[i]
      \/ /\ last.ev \in {"accept_call", "reject_call", "end_call"}
         /\ last.callId = pre.calls[i].id
      \/ /\ JoinedDisconnect
         /\ Involves(pre.calls[i], sockUserId[last.conn])

\* An ice_candidate relayed from the caller to the callee of a ringing
\* record, which stays.
C20_Witness ==
  /\ last.ev = "ice_candidate"
  /\ out # <<>>
  /\ \E i \in 1..Len(calls) :
       /\ calls[i].status = "ringing"
       /\ calls[i].from = sockUserId[last.conn]
       /\ calls[i].to = last.to
       /\ calls[i].from # calls[i].to

\* The disconnect of a joined connection that is no participant of a
\* ringing record, which stays.
C20_WitnessDisconnect ==
  /\ JoinedDisconnect
  /\ \E i \in 1..Len(calls) :
       /\ calls[i].status = "ringing"
       /\ ~ Involves(calls[i], sockUserId[last.conn])

\* The last step was an accept_call, reject_call or end_call naming a
\* callId that calls did not hold.
UnknownCallId ==
  /\ last.ev \in {"accept_call", "reject_call", "end_call"}
  /\ ~ MapHas(pre.calls, last.callId)

\* C21: an accept_call, reject_call or end_call naming a callId that is
\* not in calls, never issued or already removed, leaves activeUsers and
\* calls as they were and emits no event, to the sender or to anyone.
C21_UnknownCallDropped ==
  UnknownCallId =>
    /\ activeUsers = pre.activeUsers
    /\ calls = pre.calls
    /\ out = <<>>

\* An end_call from a joined connection for a callId that was issued and
\* has been removed, while calls holds another record.
C21_Witness ==
  /\ UnknownCallId
  /\ last.ev = "end_call"
  /\ last.callId < nextCallId
  /\ sockUserId[last.conn] # None
  /\ calls # <<>>

\* An accept_call for a callId that was never issued.
C21_WitnessNeverCreated ==
  /\ UnknownCallId
  /\ last.ev = "accept_call"
  /\ last.callId >= nextCallId
  /\ activeUsers # <<>>

\* C22: a join emits exactly one join_success, to the joining connection
\* alone; its list is activeUsers as the join left it, which holds the
\* joining user and every user that had an entry before; the users_updated
\* of the same join goes to every open connection with the same list.
C22_JoinSuccessSnapshot ==
  last.ev = "join" =>
    /\ Cardinality(Emitted("join_success")) = 1
    /\ \A i \in Emitted("join_success") :
         /\ out[i].to = {last.conn}
         /\ out[i].list = activeUsers
         /\ last.id \in MapKeys(out[i].list)
         /\ MapKeys(pre.activeUsers) \subseteq MapKeys(out[i].list)
    /\ \E i \in Emitted("users_updated") :
         /\ out[i].to = connected
         /\ out[i].list = activeUsers

\* The second user joins on its own connection while the first is online
\* on another open connection.
C22_Witness ==
  /\ last.ev = "join"
  /\ pre.activeUsers # <<>>
  /\ ~ MapHas(pre.activeUsers, last.id)
  /\ \E c \in connected \ {last.conn} : RegisteredOn(pre.activeUsers[1].id, c)
  /\ \A i \in Emitted("join_success") : Len(out[i].list) = 2

\* The last step was the disconnect of a connection that never joined.
UnjoinedDisconnect == last.ev = "disconnect" /\ sockUserId[last.conn] = None

\* C23: the disconnect of a connection that never joined leaves
\* activeUsers and calls as they were and emits nothing: no call_ended and
\* no users_updated.
C23_UnjoinedDisconnectNoop ==
  UnjoinedDisconnect =>
    /\ activeUsers = pre.activeUsers
    /\ calls = pre.calls
    /\ out = <<>>

\* A connection that never joined disconnects while a user is online on
\* another connection and a call is on record.
C23_Witness ==
  /\ UnjoinedDisconnect
  /\ activeUsers # <<>>
  /\ calls # <<>>
  /\ connected # {}

\* A login request has been answered.
Answered == http.res.status # None

\* C24: every login request, whatever username and password it carries,
\* is answered with status 200, a user {id, username, isOnline} and a
\* token; none is answered with an error.
C24_LoginNeverErrors ==
  Answered =>
    /\ http.res.status = 200
    /\ http.res.user.username = http.req.username
    /\ http.res.token = http.res.user.id

\* C24 as the endpoint has it: a request with a non-empty username and a
\* non-empty password, whatever they are, is answered with status 200, the
\* stored user {id, username, isOnline: false} under that username and its
\* id as token, the password being compared with nothing; a request whose
\* username or password is empty or absent is answered with status 400 and
\* an error, and no user is ever stored under an empty username.
C24_LoginChecksPresenceOnly ==
  Answered =>
    IF http.req.username # "" /\ http.req.password # ""
    THEN /\ http.res.status = 200
         /\ http.res.user.username = http.req.username
         /\ http.res.user.isOnline = FALSE
         /\ http.res.token = http.res.user.id
         /\ MapGet(http.users, http.res.user.id) = http.res.user
    ELSE /\ http.res = BadRequest
         /\ \A i \in 1..Len(http.users) : http.users[i].username # ""

\* A user that was stored by an earlier login logs in again and gets its
\* own id back, after a later user was stored.
C24_Witness ==
  /\ Answered
  /\ http.res.status = 200
  /\ http.res.user.id < Len(http.users)

\* A request with a username and no password is answered with the error.
C24_WitnessBadRequest ==
  /\ http.req.username # ""
  /\ http.req.password = ""
  /\ http.res = BadRequest

\* C25: in a join the join_success to the joining connection is emitted
\* before the users_updated that the join causes.
C25_ReplyBeforeBroadcast ==
  last.ev = "join" =>
    /\ Emitted("join_success") # {}
    /\ Emitted("users_updated") # {}
    /\ \A i \in Emitted("join_success"), j \in Emitted("users_updated") : i < j

\* C25 as the handler has it: the order is register, broadcast, reply.  A
\* join emits two events: first the users_updated to every open
\* connection, the joining one included, then the join_success to the
\* joining connection; both carry activeUsers with the joining user
\* registered.
C25_BroadcastBeforeReply ==
  last.ev = "join" =>
    /\ Len(out) = 2
    /\ out[1].ev = "users_updated"
    /\ out[1].to = connected
    /\ last.conn \in out[1].to
    /\ out[2].ev = "join_success"
    /\ out[2].to = {last.conn}
    /\ MapHas(out[1].list, last.id)
    /\ MapHas(out[2].list, last.id)

\* A join handled while another connection is open.
C25_Witness ==
  /\ last.ev = "join"
  /\ Cardinality(connected) >= 2
  /\ Emitted("users_updated") = {1}
  /\ Emitted("join_success") = {2}

\* C26: the disconnect of a joined connection removes the entry of its
\* userId and emits its call_ended events, each for a record that named
\* that userId and found with the entry already gone, before the one
\* users_updated, which comes last, goes to the connections still open and
\* lists activeUsers without that userId.
C26_DisconnectOrder ==
  JoinedDisconnect =>
    LET u == sockUserId[last.conn] IN
      /\ ~ MapHas(activeUsers, u)
      /\ Emitted("users_updated") = {Len(out)}
      /\ \A i \in 1..(Len(out) - 1) :
           /\ out[i].ev = "call_ended"
           /\ MapHas(pre.calls, out[i].callId)
           /\ Involves(MapGet(pre.calls, out[i].callId), u)
           /\ Peer(MapGet(pre.calls, out[i].callId), u) # u
      /\ out[Len(out)].list = activeUsers
      /\ out[Len(out)].to = connected
      /\ ~ MapHas(out[Len(out)].list, u)

\* A joined connection disconnects with a call on record whose other
\* participant is online: a call_ended, then the users_updated listing
\* that participant.
C26_Witness ==
  /\ JoinedDisconnect
  /\ Len(out) >= 2
  /\ out[1].ev = "call_ended"
  /\ out[Len(out)].ev = "users_updated"
  /\ out[Len(out)].list # <<>>
  /\ MapHas(pre.activeUsers, sockUserId[last.conn])

\* The last step was ev, naming a record that calls held, sent by a
\* connection that is joined as neither of its participants or not joined.
FromOutsider(ev) ==
  /\ Found(ev)
  /\ ~ Involves(MapGet(pre.calls, last.callId), sockUserId[last.conn])

\* C27: an accept_call or reject_call sent by a connection that is not
\* joined as the callee of the record it names, and an end_call sent by a
\* connection joined as neither its caller nor its callee, leave calls as
\* it was and emit nothing.
C27_OnlyParticipantsChange ==
  /\ ((Found("accept_call") \/ Found("reject_call"))
      /\ sockUserId[last.conn] # MapGet(pre.calls, last.callId).to)
     => (calls = pre.calls /\ out = <<>>)
  /\ FromOutsider("end_call") => (calls = pre.calls /\ out = <<>>)

\* C27 as the handlers have it: no handler compares the sender with the
\* participants of the record.  Whoever sends it, an accept_call sets the
\* record to connected and a reject_call or an end_call removes it; sent by
\* a connection joined as a third user or not joined at all, accept_call
\* and reject_call still notify the caller's entry, and end_call, finding
\* that the sender is not the caller, notifies the caller's entry too.
C27_AnySenderChanges ==
  /\ Found("accept_call") =>
       calls = MapSet(pre.calls, last.callId,
                 [MapGet(pre.calls, last.callId) EXCEPT !.status = "connected"])
  /\ (Found("reject_call") \/ Found("end_call")) =>
       calls = MapDelete(pre.calls, last.callId)
  /\ \A ev \in {"accept_call", "reject_call", "end_call"} :
       FromOutsider(ev) =>
         LET call  == MapGet(pre.calls, last.callId)
             event == CASE ev = "accept_call" -> "call_accepted"
                        [] ev = "reject_call" -> "call_rejected"
                        [] OTHER              -> "call_ended"
         IN  IF MapHas(activeUsers, call.from)
             THEN /\ Len(out) = 1
                  /\ out[1].ev = event
                  /\ out[1].callId = last.callId
                  /\ out[1].to = {MapGet(activeUsers, call.from).socketId}
             ELSE out = <<>>

\* A connection that never joined ends a call between two other users,
\* both online: the record is removed and the caller is sent call_ended.
C27_Witness ==
  /\ FromOutsider("end_call")
  /\ sockUserId[last.conn] = None
  /\ MapGet(pre.calls, last.callId).from # MapGet(pre.calls, last.callId).to
  /\ MapHas(activeUsers, MapGet(pre.calls, last.callId).from)
  /\ MapHas(activeUsers, MapGet(pre.calls, last.callId).to)
  /\ ~ MapHas(calls, last.callId)
  /\ Emitted("call_ended") # {}

\* The caller itself accepts its own call: the record becomes connected.
C27_WitnessCallerAccepts ==
  /\ Found("accept_call")
  /\ MapGet(pre.calls, last.callId).from # MapGet(pre.calls, last.callId).to
  /\ sockUserId[last.conn] = MapGet(pre.calls, last.callId).from
  /\ MapGet(pre.calls, last.callId).status = "ringing"
  /\ MapGet(calls, last.callId).status = "connected"

\* The sockets that activeUsers names for the caller id and the callee id
\* of call.
ParticipantSockets(call) ==
  {MapGet(activeUsers, u).socketId :
     u \in {v \in {call.from, call.to} : MapHas(activeUsers, v)}}

\* The record an event of `out` is about: the one calls held before the
\* handler, or the one the handler created.
RecordOf(callId) ==
  IF MapHas(pre.calls, callId) THEN MapGet(pre.calls, callId)
  ELSE MapGet(calls, callId)

\* C28: every incoming_call, call_accepted, call_rejected and call_ended
\* is about a record of calls and is addressed only to sockets that
\* activeUsers, as it is when the event is emitted, names for the caller
\* id or the callee id of that record, whoever sent the inbound event.
C28_CallEventsToParticipants ==
  \A i \in 1..Len(out) :
    out[i].ev \in {"incoming_call", "call_accepted", "call_rejected",
                   "call_ended"} =>
      /\ RecordOf(out[i].callId) # Undefined
      /\ out[i].to # {}
      /\ out[i].to \subseteq ParticipantSockets(RecordOf(out[i].callId))

\* A connection that never joined rejects a call while a user who is no
\* participant of it is online: the call_rejected goes to the caller.
C28_Witness ==
  /\ FromOutsider("reject_call")
  /\ Emitted("call_rejected") # {}
  /\ \E i \in 1..Len(activeUsers) :
       ~ Involves(MapGet(pre.calls, last.callId), activeUsers[i].id)

\* The callIds that were issued and are no longer in calls.
Dead == {id \in CallIds : id < nextCallId /\ ~ MapHas(calls, id)}

\* The positions of `out` holding a call_rejected or call_ended about
\* callId.
Terminal(callId) ==
  EmittedFor("call_rejected", callId) \cup EmittedFor("call_ended", callId)

\* One handler emits at most one call_rejected or call_ended per callId,
\* removes the record when it emits one, and emits a call_accepted only
\* for a record it keeps.
OneTerminal ==
  \A id \in CallIds :
    /\ Cardinality(Terminal(id)) <= 1
    /\ Terminal(id) # {} => id \in Dead
    /\ EmittedFor("call_accepted", id) # {} =>
         (MapHas(calls, id) /\ Terminal(id) = {})

\* A dead callId stays dead, and the step emits no call_accepted,
\* call_rejected or call_ended carrying it.
DeadStaysDead ==
  \A id \in Dead :
    /\ id \in Dead'
    /\ \A i \in 1..Len(out') :
         out'[i].ev \in {"call_accepted", "call_rejected", "call_ended"}
           => out'[i].callId # id

\* C29: once a record is removed its callId never returns to calls and no
\* later step emits a call_accepted, call_rejected or call_ended carrying
\* it; as a handler emits at most one terminal event per callId and
\* removes the record with it, a callId has at most one terminal event and
\* no call_accepted after it.
C29_RemovedCallIdDead == [] OneTerminal /\ [][DeadStaysDead]_vars

\* The callee's accept_call for a callId that is dead, with the caller
\* online: nothing is emitted.
C29_Witness ==
  /\ last.ev = "accept_call"
  /\ last.callId \in Dead
  /\ ~ MapHas(pre.calls, last.callId)
  /\ sockUserId[last.conn] # None
  /\ Cardinality(MapKeys(activeUsers)) = NumUsers
  /\ out = <<>>

\* C30: in every reachable state the caller id and the callee id of each
\* record of calls both have a presence entry, and some participant of
\* each record still has an open connection.
C30_NoOrphanedRecord ==
  \A i \in 1..Len(calls) :
    /\ MapHas(activeUsers, calls[i].from)
    /\ MapHas(activeUsers, calls[i].to)
    /\ (Reaches(calls[i].from) \cup Reaches(calls[i].to)) \cap connected # {}

\* The client shows no call: currentCall is null and no incoming call is
\* pending.
Idle ==
  dashboard.currentCall = NoCall /\ dashboard.incomingCall = NoIncoming

\* C31: whenever the client is idle its WebRTCService holds no open peer
\* connection and no live local stream, whichever way it came back to
\* idle.
C31_IdleHoldsNothing ==
  Idle => /\ webrtcService.peerConnection = None
          /\ ~ webrtcService.localStream


\* The step leaves the service's peer connection, the descriptions of the
\* RTCPeerConnection objects made so far and the two callbacks as they were.
Undisturbed ==
  /\ webrtcService'.peerConnection = webrtcService.peerConnection
  /\ webrtcService'.onRemoteStream = webrtcService.onRemoteStream
  /\ webrtcService'.onIceCandidate = webrtcService.onIceCandidate
  /\ \A i \in 1..Len(webrtcService.pcs) :
       webrtcService'.pcs[i] = webrtcService.pcs[i]

\* C32: an incoming_call that arrives while the client has a call (calling,
\* ringing or connected) leaves the peer connection of that call, its
\* remote description and the callbacks untouched.
C32_IncomingCallLeavesCall ==
  [][did' = "incoming_call" /\ dashboard.currentCall # NoCall
       => Undisturbed]_vars

\* C33: every ICE candidate the client receives for the call being set up
\* is eventually added to the peer connection, however its arrival
\* interleaves with the continuations of incoming_call and call_accepted.
C33_CandidateEventuallyAdded ==
  \A k \in 1..MaxCandidates : (k \in ice.received) ~> (k \in ice.added)

\* The positions of the users Map of vite.config.ts that hold userId u.
EntriesOf(us, u) == {i \in 1..Len(us) : us[i].user.id = u}

\* C34: in the server of vite.config.ts the users Map holds at most one
\* entry per userId; after a join for a userId that was online on another
\* connection the one entry for it names the joining connection, so the
\* online list never holds a userId twice.
C34_VitePresenceUnique ==
  /\ \A u \in Users : Cardinality(EntriesOf(vite.users, u)) <= 1
  /\ vite.last.ev = "join" =>
       \A i \in EntriesOf(vite.users, vite.last.id) :
         vite.users[i].user.socketId = vite.last.conn

\* The last step of the server of vite.config.ts was the disconnect of a
\* connection that had joined.
ViteJoinedDisconnect ==
  vite.last.ev = "disconnect" /\ MapHas(vite.pre.users, vite.last.conn)

\* The call records the disconnecting connection's user was the caller of,
\* made by a call_user whose `from` came without a socketId.
CallsOfCaller ==
  LET u == MapGet(vite.pre.users, vite.last.conn).user.id IN
    {call \in {vite.pre.activeCalls[i] : i \in 1..Len(vite.pre.activeCalls)} :
       call.caller.id = u /\ call.caller.socketId = None}

\* C35: in the server of vite.config.ts, when the connection of a caller
\* disconnects, every call record whose caller is that user, as the client
\* names it in call_user ({id, username}, no socket id), is removed, and
\* its callee, if still connected, is sent call_ended.
C35_CallerDisconnectEndsCalls ==
  ViteJoinedDisconnect =>
    \A call \in CallsOfCaller :
      /\ ~ MapHas(vite.activeCalls, call.id)
      /\ call.callee.socketId \in vite.connected =>
           \E k \in 1..Len(vite.out) :
             /\ vite.out[k].ev = "call_ended"
             /\ call.callee.socketId \in vite.out[k].to

====
